---- MODULE Spec2Model ----
(***************************************************************************)
(* Model of the Marabu message layer of problem_set1/solution1:            *)
(*   message.ts  - parseMessage, convertMessage, the Message types         *)
(*   server      - createServer, handleConnection, sendError,              *)
(*                 isValidMessageType                                      *)
(*                                                                         *)
(* JSON values are records [t, s, e]: t is the kind of the value, s the    *)
(* text of a string (or the decimal text of a number), e the elements of   *)
(* an array as scalars.  A JSON object is a function from its own keys to  *)
(* values.  Bytes on the wire are sequences of lexemes.                    *)
(***************************************************************************)
EXTENDS Integers, Sequences, FiniteSets, TLC

VARIABLES
    message,    \* convertMessage: the object it is applied to
    result,     \* convertMessage, parseMessage: what the call returned
    called,     \* convertMessage, parseMessage: whether the call has been made
    text,       \* parseMessage, canonicalizeMessage: the bytes or string given
    output,     \* canonicalizeMessage: the strings returned by successive calls
    pc,         \* per connection: where its handler stands
    inq,        \* per connection: bytes the peer sent that no read returned yet
    buffer,     \* per connection: the handler's read buffer
    processed,  \* per connection: the reads handled so far, in order
    pending,    \* per connection: the error response conn.write is writing
    sent,       \* per connection: the responses written to the peer, in order
    released    \* per connection: the server called conn.close()

convVars == <<message, result, called, text, output>>
serverVars == <<pc, inq, buffer, processed, pending, sent, released>>
vars == <<message, result, called, text, output, pc, inq, buffer, processed, pending, sent, released>>

-----------------------------------------------------------------------------
(* JSON values *)

Str(s) == [t |-> "string", s |-> s, e |-> <<>>]
Num(s) == [t |-> "number", s |-> s, e |-> <<>>]
Null == [t |-> "null", s |-> "null", e |-> <<>>]
Undefined == [t |-> "undefined", s |-> "undefined", e |-> <<>>]
Arr(elems) == [t |-> "array", s |-> "", e |-> elems]
\* an object value nested in a message; its members are opaque to this layer
Obj(s) == [t |-> "object", s |-> s, e |-> <<>>]

\* typeof v
typeof(v) ==
    CASE v.t = "string" -> "string"
      [] v.t = "number" -> "number"
      [] v.t = "undefined" -> "undefined"
      [] OTHER -> "object"

\* Array.isArray(v)
isArray(v) == v.t = "array"

\* v.every(x => typeof x === 'string')
everyString(v) == \A i \in 1..Len(v.e) : typeof(v.e[i]) = "string"

\* v.some(x => typeof x === 'string')
someString(v) == \E i \in 1..Len(v.e) : typeof(v.e[i]) = "string"

\* m.k for a key k that Object.prototype does not define
Get(m, k) == IF k \in DOMAIN m THEN m[k] ELSE Undefined

\* Object.keys(m).length
keysLength(m) == Cardinality(DOMAIN m)

RECURSIVE join(_)
\* Array.prototype.join of scalars, as used by ToString of an array
join(elems) ==
    IF elems = <<>> THEN ""
    ELSE IF Len(elems) = 1 THEN (IF elems[1].t \in {"null", "undefined"} THEN "" ELSE elems[1].s)
    ELSE (IF elems[1].t \in {"null", "undefined"} THEN "" ELSE elems[1].s) \o "," \o join(Tail(elems))

\* ToPropertyKey(v): the string a value is turned into when used as a key
ToPropertyKey(v) ==
    CASE v.t = "array" -> join(v.e)
      [] v.t = "object" -> "[object Object]"
      [] OTHER -> v.s

-----------------------------------------------------------------------------
(* message.ts: convertMessage *)

\* the keys of the object literal `validators`
RegisteredTypes ==
    {"hello", "error", "getpeers", "getmempool", "getchaintip", "peers",
     "getobject", "ihaveobject", "object", "mempool", "chaintip"}

\* the functions every object literal inherits from Object.prototype
PrototypeFunctions ==
    {"constructor", "toString", "toLocaleString", "valueOf", "hasOwnProperty",
     "isPrototypeOf", "propertyIsEnumerable", "__defineGetter__",
     "__defineSetter__", "__lookupGetter__", "__lookupSetter__"}

\* validators with no count of the keys in the rule of getpeers, getmempool
\* and getchaintip
validatorsNoCount(type, m) ==
    CASE type = "hello" ->
            typeof(Get(m, "version")) = "string" /\ typeof(Get(m, "agent")) = "string"
      [] type = "error" ->
            typeof(Get(m, "name")) = "string" /\ typeof(Get(m, "description")) = "string"
      [] type \in {"getpeers", "getmempool", "getchaintip"} ->
            TRUE
      [] type = "peers" ->
            isArray(Get(m, "peers")) /\ everyString(Get(m, "peers"))
      [] type \in {"getobject", "ihaveobject"} ->
            typeof(Get(m, "objectid")) = "string"
      [] type = "object" ->
            typeof(Get(m, "object")) = "object" /\ Get(m, "object") # Null
      [] type = "mempool" ->
            isArray(Get(m, "txids")) /\ everyString(Get(m, "txids"))
      [] type = "chaintip" ->
            typeof(Get(m, "blockid")) = "string"

\* validators with the peers rule written with `some` in place of `every`
validatorsSome(type, m) ==
    CASE type = "hello" ->
            typeof(Get(m, "version")) = "string" /\ typeof(Get(m, "agent")) = "string"
      [] type = "error" ->
            typeof(Get(m, "name")) = "string" /\ typeof(Get(m, "description")) = "string"
      [] type \in {"getpeers", "getmempool", "getchaintip"} ->
            keysLength(m) = 1
      [] type = "peers" ->
            isArray(Get(m, "peers")) /\ someString(Get(m, "peers"))
      [] type \in {"getobject", "ihaveobject"} ->
            typeof(Get(m, "objectid")) = "string"
      [] type = "object" ->
            typeof(Get(m, "object")) = "object" /\ Get(m, "object") # Null
      [] type = "mempool" ->
            isArray(Get(m, "txids")) /\ everyString(Get(m, "txids"))
      [] type = "chaintip" ->
            typeof(Get(m, "blockid")) = "string"

\* the validation rule registered for each message type, applied to m
validators(type, m) ==
    CASE type = "hello" ->
            typeof(Get(m, "version")) = "string" /\ typeof(Get(m, "agent")) = "string"
      [] type = "error" ->
            typeof(Get(m, "name")) = "string" /\ typeof(Get(m, "description")) = "string"
      [] type \in {"getpeers", "getmempool", "getchaintip"} ->
            keysLength(m) = 1
      [] type = "peers" ->
            isArray(Get(m, "peers")) /\ everyString(Get(m, "peers"))
      [] type \in {"getobject", "ihaveobject"} ->
            typeof(Get(m, "objectid")) = "string"
      [] type = "object" ->
            typeof(Get(m, "object")) = "object" /\ Get(m, "object") # Null
      [] type = "mempool" ->
            isArray(Get(m, "txids")) /\ everyString(Get(m, "txids"))
      [] type = "chaintip" ->
            typeof(Get(m, "blockid")) = "string"

\* validators[type]: what the property lookup finds, own keys first, then
\* the prototype chain of the object literal
validatorLookup(key) ==
    IF key \in RegisteredTypes THEN "registered"
    ELSE IF key \in PrototypeFunctions THEN "inherited"
    ELSE IF key = "__proto__" THEN "prototype"
    ELSE "undefined"

\* validator(msg) for a function inherited from Object.prototype, called with
\* no receiver: "truthy", "falsy" or "throws"
inheritedCall(key) ==
    CASE key = "constructor" -> "truthy"     \* Object(msg) is msg
      [] key = "toString" -> "truthy"        \* "[object Undefined]"
      [] OTHER -> "throws"                   \* ToObject(undefined) is a TypeError

Success(v) == [success |-> TRUE, threw |-> FALSE, value |-> {v}, error |-> ""]
Failure(e) == [success |-> FALSE, threw |-> FALSE, value |-> {}, error |-> e]
\* the call does not return: an exception leaves it
Throws(e) == [success |-> FALSE, threw |-> TRUE, value |-> {}, error |-> e]

convertMessage(m) ==
    IF "type" \notin DOMAIN m
    THEN Failure("Message JSON is not in valid format")
    ELSE LET type == ToPropertyKey(m["type"])
             found == validatorLookup(type)
         IN CASE found = "registered" ->
                    IF validators(type, m)
                    THEN Success(m)
                    ELSE Failure("Message JSON is not in valid format")
              [] found = "inherited" ->
                    IF inheritedCall(type) = "throws" THEN Throws("TypeError")
                    ELSE IF inheritedCall(type) = "truthy" THEN Success(m)
                    ELSE Failure("Message JSON is not in valid format")
              [] found = "prototype" -> Throws("TypeError")
              [] OTHER -> Failure("Message JSON is not in valid format")

-----------------------------------------------------------------------------
(* The objects convertMessage is applied to *)

ErrorCodes ==
    {"INTERNAL_ERROR", "INVALID_FORMAT", "UNKNOWN_OBJECT", "UNFINDABLE_OBJECT",
     "INVALID_HANDSHAKE", "INVALID_TX_OUTPOINT", "INVALID_TX_SIGNATURE",
     "INVALID_TX_CONSERVATION", "INVALID_BLOCK_COINBASE",
     "INVALID_BLOCK_TIMESTAMP", "INVALID_BLOCK_POW", "INVALID_GENESIS"}

\* the members each variant of Message declares besides type
DeclaredFields(type) ==
    CASE type = "hello" -> {"version", "agent"}
      [] type = "error" -> {"name", "description"}
      [] type = "peers" -> {"peers"}
      [] type \in {"getobject", "ihaveobject"} -> {"objectid"}
      [] type = "object" -> {"object"}
      [] type = "mempool" -> {"txids"}
      [] type = "chaintip" -> {"blockid"}
      [] OTHER -> {}

\* most members an input object has beyond type and the members its variant
\* declares
MaxExtra == 1

ExtraNames == <<"extra", "extra2", "extra3">>
ExtraFields == {ExtraNames[i] : i \in 1..MaxExtra}

\* the values an input object gives a member
FieldValues(k) ==
    {Str("x"), Num("1")}
    \cup (IF k = "name" THEN {Str(code) : code \in ErrorCodes} ELSE {})
    \cup (IF k \in {"peers", "txids"}
          THEN {Arr(<<>>), Arr(<<Str("x")>>), Arr(<<Str("x"), Num("1")>>)} ELSE {})
    \cup (IF k = "object" THEN {Obj("block"), Null, Arr(<<>>)} ELSE {})

\* the values an input object gives type
TypeValues ==
    {Str(t) : t \in RegisteredTypes \cup PrototypeFunctions \cup {"__proto__", "bogus"}}
    \cup {Num("1"), Null, Arr(<<Str("hello")>>), Obj("block")}

EmptyObject == [k \in {} |-> Undefined]

\* the objects whose keys are among K, the value of each key k among FieldValues(k)
ObjectsOver(K) ==
    UNION {{f \in [J -> UNION {FieldValues(k) : k \in J}] :
                \A k \in J : f[k] \in FieldValues(k)} : J \in SUBSET K}

\* the input objects: for each value of type, the objects over the members the
\* validator of that type reads and the extra members; and the same without type
InputsOf(extra) ==
    UNION {{m @@ ("type" :> v) :
                m \in ObjectsOver(DeclaredFields(ToPropertyKey(v)) \cup extra)} :
           v \in TypeValues}
    \cup ObjectsOver(DeclaredFields("hello") \cup extra)

-----------------------------------------------------------------------------
(* Bytes.  A byte sequence is modelled as a sequence of lexemes; the peers   *)
(* send runs of bytes, and a read returns whole runs.                        *)

Lex(lx, key, val) == [lx |-> lx, key |-> key, val |-> val]
LBrace == Lex("{", "", Undefined)
RBrace == Lex("}", "", Undefined)
Member(key, val) == Lex("member", key, val)
Newline == Lex("nl", "", Undefined)
\* the text of a complete JSON value that is not an object: a number, a
\* string, true, false, null, or an array
Value(v) == Lex("value", "", v)

\* HELLO, GETPEERS and CONNECT are one message each with the newline that ends
\* it; HEAD and TAIL are the two halves of a hello message, the newline in TAIL
\* TOSTRING is a message of a valid type with a member named toString
PeerRuns == {"HELLO", "GETPEERS", "CONNECT", "TOSTRING", "HEAD", "TAIL"}

\* the byte a fresh Uint8Array holds
ZeroByte == Lex("zero", "", Undefined)

\* the bytes of a run
RunBytes(r) ==
    CASE r = "HELLO" ->
            <<LBrace, Member("type", Str("hello")), Member("version", Str("0.10.0")),
              Member("agent", Str("test")), RBrace, Newline>>
      [] r = "GETPEERS" -> <<LBrace, Member("type", Str("getpeers")), RBrace, Newline>>
      [] r = "CONNECT" -> <<LBrace, Member("type", Str("connect")), RBrace, Newline>>
      [] r = "TOSTRING" ->
            <<LBrace, Member("type", Str("message")), Member("toString", Str("x")),
              RBrace, Newline>>
      [] r = "HEAD" -> <<LBrace, Member("type", Str("hello"))>>
      [] r = "TAIL" ->
            <<Member("version", Str("0.10.0")), Member("agent", Str("test")), RBrace,
              Newline>>

RECURSIVE Flatten(_)
\* the bytes of a sequence of runs
Flatten(runs) ==
    IF runs = <<>> THEN <<>> ELSE RunBytes(Head(runs)) \o Flatten(Tail(runs))

-----------------------------------------------------------------------------
(* message.ts: parseMessage *)

\* the lexemes of a sequence of bytes that are not whitespace
NoWhitespace(bytes) == SelectSeq(bytes, LAMBDA x : x.lx # "nl")

RECURSIVE ObjectOf(_)
\* the object a sequence of members denotes; a later duplicate key wins
ObjectOf(members) ==
    IF members = <<>> THEN EmptyObject
    ELSE LET rest == ObjectOf(SubSeq(members, 1, Len(members) - 1))
             last == members[Len(members)]
         IN [k \in DOMAIN rest \cup {last.key} |->
                IF k = last.key THEN last.val ELSE rest[k]]

\* JSON.parse(bytes): an object between braces or one other value, whitespace
\* around the lexemes; anything else is a SyntaxError
JSONParse(bytes) ==
    LET t == NoWhitespace(bytes)
        n == Len(t)
    IN IF /\ n >= 2
          /\ t[1].lx = "{"
          /\ t[n].lx = "}"
          /\ \A i \in 2..(n - 1) : t[i].lx = "member"
       THEN Success(ObjectOf(SubSeq(t, 2, n - 1)))
       ELSE IF n = 1 /\ t[1].lx = "value"
       THEN Success(t[1].val)
       ELSE Throws("SyntaxError")

parseMessage(bytes) ==
    LET parsed == JSONParse(bytes)
    IN IF parsed.threw
       THEN Failure("Message object is not valid JSON")
       ELSE parsed

\* JSON.stringify of an object given as its members in insertion order,
\* encoded by TextEncoder
JSONStringify(members) == <<LBrace>> \o members \o <<RBrace>>

-----------------------------------------------------------------------------
(* server: createServer, handleConnection, sendError, isValidMessageType *)

Conns == {"c1", "c2"}

\* runs the peers send in all, over all connections
MaxSends == 2
\* size of the read buffer in bytes (new Uint8Array(1024)), scaled to the runs
BufferSize == 8

validTypes == {"connect", "disconnect", "message"}

\* message && typeof message === "object", for a value that has members: a
\* JSON object (a function from its keys) and not a value record [t, s, e];
\* no object of the model has the keys t, s and e, and an array has no member
\* named type
IsObject(v) == DOMAIN v # {"t", "s", "e"}

isValidMessageType(m) ==
    /\ IsObject(m)
    /\ "type" \in DOMAIN m
    /\ m["type"].t = "string"
    /\ m["type"].s \in validTypes

\* `${message}` in the handler's console.log throws TypeError: the object has
\* an own member toString, which is not callable, and Object.prototype.valueOf
\* returns the object itself; the handler's catch then breaks the loop
templateThrows(m) == IsObject(m) /\ "toString" \in DOMAIN m

\* the bytes sendError writes
errorResponse(code, msg) ==
    JSONStringify(<<Member("type", Str("error")), Member("code", Str(code)),
                    Member("message", Str(msg))>>)

\* handle with a parse failure ending the loop in place of `continue`
handleBreak(bytes) ==
    LET messageResult == parseMessage(bytes)
    IN IF ~messageResult.success
       THEN [pc |-> "done", outcome |-> "parse_error", pending |-> <<>>]
       ELSE IF \E m \in messageResult.value : templateThrows(m)
       THEN [pc |-> "done", outcome |-> "threw", pending |-> <<>>]
       ELSE IF ~(\A m \in messageResult.value : isValidMessageType(m))
       THEN [pc |-> "write", outcome |-> "invalid_type",
             pending |-> errorResponse("INVALID_FORMAT", "Invalid message type")]
       ELSE [pc |-> "read", outcome |-> "handled", pending |-> <<>>]

\* handle with the template literal outside the try: the TypeError rejects the
\* handler's promise
handleUncaught(bytes) ==
    LET messageResult == parseMessage(bytes)
    IN IF ~messageResult.success
       THEN [pc |-> "write", outcome |-> "parse_error",
             pending |-> errorResponse("INVALID_FORMAT", messageResult.error)]
       ELSE IF \E m \in messageResult.value : templateThrows(m)
       THEN [pc |-> "rejected", outcome |-> "threw", pending |-> <<>>]
       ELSE IF ~(\A m \in messageResult.value : isValidMessageType(m))
       THEN [pc |-> "write", outcome |-> "invalid_type",
             pending |-> errorResponse("INVALID_FORMAT", "Invalid message type")]
       ELSE [pc |-> "read", outcome |-> "handled", pending |-> <<>>]

\* handle with sendError called and not awaited: the loop goes back to
\* conn.read while the write is under way
handleNoAwait(bytes) ==
    LET messageResult == parseMessage(bytes)
    IN IF ~messageResult.success
       THEN [pc |-> "read", outcome |-> "parse_error",
             pending |-> errorResponse("INVALID_FORMAT", messageResult.error)]
       ELSE IF \E m \in messageResult.value : templateThrows(m)
       THEN [pc |-> "done", outcome |-> "threw", pending |-> <<>>]
       ELSE IF ~(\A m \in messageResult.value : isValidMessageType(m))
       THEN [pc |-> "read", outcome |-> "invalid_type",
             pending |-> errorResponse("INVALID_FORMAT", "Invalid message type")]
       ELSE [pc |-> "read", outcome |-> "handled", pending |-> <<>>]

\* one pass of the handler's loop over the bytes a read returned, up to its
\* next await or its break: where the handler stands then, and the response it
\* is writing
handle(bytes) ==
    LET messageResult == parseMessage(bytes)
    IN IF ~messageResult.success
       THEN [pc |-> "write", outcome |-> "parse_error",
             pending |-> errorResponse("INVALID_FORMAT", messageResult.error)]
       ELSE IF \E m \in messageResult.value : templateThrows(m)
       THEN [pc |-> "done", outcome |-> "threw", pending |-> <<>>]
       ELSE IF ~(\A m \in messageResult.value : isValidMessageType(m))
       THEN [pc |-> "write", outcome |-> "invalid_type",
             pending |-> errorResponse("INVALID_FORMAT", "Invalid message type")]
       ELSE [pc |-> "read", outcome |-> "handled", pending |-> <<>>]

NoResult == Failure("")

ServerInit ==
    /\ pc = [c \in Conns |-> "listening"]
    /\ inq = [c \in Conns |-> <<>>]
    /\ buffer = [c \in Conns |-> <<>>]
    /\ processed = [c \in Conns |-> <<>>]
    /\ pending = [c \in Conns |-> <<>>]
    /\ sent = [c \in Conns |-> <<>>]
    /\ released = [c \in Conns |-> FALSE]

ConvIdle ==
    /\ message = EmptyObject
    /\ result = NoResult
    /\ called = FALSE
    /\ text = <<>>
    /\ output = <<>>

Init == ServerInit /\ ConvIdle

RECURSIVE Stream(_)
\* the runs the reads of a log returned, in order
Stream(log) ==
    IF log = <<>> THEN <<>> ELSE Head(log).bytes \o Stream(Tail(log))

\* runs the peers have sent so far: those read and those still queued
SentInAll ==
    LET n(c) == Len(inq[c]) + Len(Stream(processed[c]))
    IN n("c1") + n("c2")

\* Accept with the accept loop awaiting each handler: the listener yields c
\* only when no other handler is running
AcceptAwaits(c) ==
    /\ pc[c] = "listening"
    /\ \A d \in Conns \ {c} : pc[d] \in {"listening", "done"}
    /\ pc' = [pc EXCEPT ![c] = "read"]
    /\ buffer' = [buffer EXCEPT ![c] = [i \in 1..BufferSize |-> ZeroByte]]
    /\ UNCHANGED <<inq, processed, pending, sent, released, convVars>>

\* the listener yields connection c and handleConnection starts its handler,
\* which runs to its first conn.read
Accept(c) ==
    /\ pc[c] = "listening"
    /\ pc' = [pc EXCEPT ![c] = "read"]
    /\ buffer' = [buffer EXCEPT ![c] = [i \in 1..BufferSize |-> ZeroByte]]
    /\ UNCHANGED <<inq, processed, pending, sent, released, convVars>>

\* the peer of c sends a run of bytes
PeerSend(c, r) ==
    /\ pc[c] \in {"read", "write"}
    /\ SentInAll < MaxSends
    /\ inq' = [inq EXCEPT ![c] = Append(@, r)]
    /\ UNCHANGED <<pc, buffer, processed, pending, sent, released, convVars>>

\* the whole buffer in place of a view of its first bytes
subarrayWhole(buf, begin, end) == buf

\* buf.subarray(begin, end): the bytes of buf from index begin up to, not
\* including, index end
subarray(buf, begin, end) == SubSeq(buf, begin + 1, end)

\* conn.read(buffer) returns the first n runs the peer sent, Len(data) bytes
\* in all, written over the start of the buffer; the handler parses
\* buffer.subarray(0, bytesRead) and checks the message type
Read(c, n) ==
    /\ pc[c] = "read"
    /\ n \in 1..Len(inq[c])
    /\ \E data \in {d \in {Flatten(SubSeq(inq[c], 1, n))} : Len(d) <= BufferSize} :
         \E buf \in {[i \in 1..BufferSize |->
                        IF i <= Len(data) THEN data[i] ELSE buffer[c][i]]} :
         \E parsed \in {subarray(buf, 0, Len(data))} :
         \E step \in {handle(parsed)} :
          /\ buffer' = [buffer EXCEPT ![c] = buf]
          /\ inq' = [inq EXCEPT ![c] = SubSeq(@, n + 1, Len(@))]
          /\ processed' = [processed EXCEPT ![c] =
                Append(@, [bytes |-> SubSeq(inq[c], 1, n), parsed |-> parsed,
                           outcome |-> step.outcome])]
          /\ pending' = [pending EXCEPT ![c] = step.pending]
          /\ pc' = [pc EXCEPT ![c] = step.pc]
    /\ UNCHANGED <<sent, released, convVars>>

\* the peer has closed its side and conn.read returns null: the loop breaks
\* and the handler returns
ReadEOF(c) ==
    /\ pc[c] = "read"
    /\ inq[c] = <<>>
    /\ pc' = [pc EXCEPT ![c] = "done"]
    /\ UNCHANGED <<inq, buffer, processed, pending, sent, released, convVars>>

\* conn.read rejects: the inner catch logs and breaks
ReadFails(c) ==
    /\ pc[c] = "read"
    /\ pc' = [pc EXCEPT ![c] = "done"]
    /\ UNCHANGED <<inq, buffer, processed, pending, sent, released, convVars>>

\* conn.write in sendError resolves; the loop continues
WriteOk(c) ==
    /\ pc[c] = "write"
    /\ sent' = [sent EXCEPT ![c] = Append(@, pending[c])]
    /\ pending' = [pending EXCEPT ![c] = <<>>]
    /\ pc' = [pc EXCEPT ![c] = "read"]
    /\ UNCHANGED <<inq, buffer, processed, released, convVars>>

\* conn.write in sendError rejects; sendError logs, and the loop continues
WriteFails(c) ==
    /\ pc[c] = "write"
    /\ pending' = [pending EXCEPT ![c] = <<>>]
    /\ pc' = [pc EXCEPT ![c] = "read"]
    /\ UNCHANGED <<inq, buffer, processed, sent, released, convVars>>

Next ==
    \/ \E c \in Conns : Accept(c)
    \/ \E c \in Conns, r \in PeerRuns : PeerSend(c, r)
    \/ \E c \in Conns, n \in 1..MaxSends : Read(c, n)
    \/ \E c \in Conns : ReadEOF(c)
    \/ \E c \in Conns : ReadFails(c)
    \/ \E c \in Conns : WriteOk(c)
    \/ \E c \in Conns : WriteFails(c)

Spec == Init /\ [][Next]_vars

-----------------------------------------------------------------------------
(* Applying convertMessage to one object *)

ConvInit ==
    /\ message \in InputsOf(ExtraFields)
    /\ result = NoResult
    /\ called = FALSE
    /\ text = <<>>
    /\ output = <<>>
    /\ ServerInit

\* const r = convertMessage(message)
Convert ==
    /\ ~called
    /\ result' = convertMessage(message)
    /\ called' = TRUE
    /\ UNCHANGED <<message, text, output>>
    /\ UNCHANGED serverVars

ConvNext == Convert

ConvSpec == ConvInit /\ [][ConvNext]_vars

-----------------------------------------------------------------------------
(* Applying parseMessage to one sequence of bytes *)

\* longest input of parseMessage, in lexemes
MaxText == 3

\* the lexemes the inputs of parseMessage are made of
ParseAlphabet ==
    {LBrace, RBrace, Member("type", Str("hello")), Newline,
     Value(Num("1")), Value(Null), Value(Arr(<<Str("a")>>))}

\* the sequences over S of length at most n
SeqsUpTo(S, n) == UNION {[1..k -> S] : k \in 0..n}

ParseInit ==
    /\ text \in SeqsUpTo(ParseAlphabet, MaxText)
    /\ message = EmptyObject
    /\ result = NoResult
    /\ called = FALSE
    /\ output = <<>>
    /\ ServerInit

\* const r = parseMessage(text)
Parse ==
    /\ ~called
    /\ result' = parseMessage(text)
    /\ called' = TRUE
    /\ UNCHANGED <<message, text, output>>
    /\ UNCHANGED serverVars

ParseNext == Parse

ParseSpec == ParseInit /\ [][ParseNext]_vars

-----------------------------------------------------------------------------
(* message.ts: canonicalizeMessage, applied to its own output *)

\* the characters the inputs of canonicalizeMessage are made of
Chars == {"a", "{", "\"", "\\"}

RECURSIVE Escape(_)
\* the characters of a string as JSON.stringify writes them between the
\* quotes: a quote and a backslash each get a backslash before them
Escape(str) ==
    IF str = <<>> THEN <<>>
    ELSE (IF Head(str) \in {"\"", "\\"} THEN <<"\\", Head(str)>> ELSE <<Head(str)>>)
            \o Escape(Tail(str))

\* canonicalize(value) of json-canonicalize for a value that is a string: the
\* string as a JSON string literal
canonicalize(str) == <<"\"">> \o Escape(str) \o <<"\"">>

canonicalizeMessage(str) == canonicalize(str)

CanonInit ==
    /\ text \in SeqsUpTo(Chars, MaxText)
    /\ message = EmptyObject
    /\ result = NoResult
    /\ called = FALSE
    /\ output = <<>>
    /\ ServerInit

\* out = canonicalizeMessage(text), and then out2 = canonicalizeMessage(out)
Canonicalize ==
    /\ Len(output) < 2
    /\ output' = Append(output,
            canonicalizeMessage(IF output = <<>> THEN text ELSE output[Len(output)]))
    /\ UNCHANGED <<message, result, called, text>>
    /\ UNCHANGED serverVars

CanonNext == Canonicalize

CanonSpec == CanonInit /\ [][CanonNext]_vars

-----------------------------------------------------------------------------
(* message.ts: the declared message types *)

\* the declared type of member k holds value v
DeclaredShape(k, v) ==
    CASE k = "name" -> v.t = "string" /\ v.s \in ErrorCodes
      [] k \in {"peers", "txids"} -> isArray(v) /\ everyString(v)
      [] k = "object" -> v.t = "object"
      [] OTHER -> v.t = "string"

\* m.type is the name of one of the 11 variants
HasRegisteredType(m) ==
    /\ "type" \in DOMAIN m
    /\ m["type"].t = "string"
    /\ m["type"].s \in RegisteredTypes

\* m is a value of type Message: one of the 11 variants, with the members
\* the variant declares, each of its declared type
IsMessage(m) ==
    /\ HasRegisteredType(m)
    /\ DOMAIN m = {"type"} \cup DeclaredFields(m["type"].s)
    /\ \A k \in DeclaredFields(m["type"].s) : DeclaredShape(k, m[k])

-----------------------------------------------------------------------------
(* Claims about convertMessage, checked under ConvSpec *)

\* C3: every object that is a message of one of the 11 variants, its declared
\* fields of the declared shapes, is accepted, and the value returned is the
\* input with every field as it was given.
C3_ValidAccepted ==
    (called /\ IsMessage(message)) =>
        /\ result.success
        /\ ~result.threw
        /\ result.value = {message}

\* C3 witness: a peers message with an empty list of peers has been accepted
C3_Witness ==
    /\ called
    /\ IsMessage(message)
    /\ message["type"].s = "peers"
    /\ message["peers"] = Arr(<<>>)
    /\ result.success

\* C4: convertMessage succeeds only when type is one of the 11 registered
\* names; with type absent or anything else the result is a failure.
C4_OnlyRegisteredTypes ==
    called =>
        /\ result.success => HasRegisteredType(message)
        /\ ~HasRegisteredType(message) => (~result.success /\ ~result.threw)

\* C5: for every object, convertMessage returns a result and never throws.
C5_NeverThrows == called => ~result.threw

\* C6: for every variant, an object is accepted only if its members are
\* exactly the declared ones: none missing, none beyond them.
C6_ExactShape ==
    (called /\ HasRegisteredType(message) /\ result.success) =>
        DOMAIN message = {"type"} \cup DeclaredFields(message["type"].s)

\* C7: an object of type error is accepted only if its name is one of the 12
\* error codes and its description is a string.
C7_ErrorNameIsCode ==
    (called /\ HasRegisteredType(message) /\ message["type"].s = "error"
        /\ result.success) =>
        /\ Get(message, "name").t = "string"
        /\ Get(message, "name").s \in ErrorCodes
        /\ Get(message, "description").t = "string"

-----------------------------------------------------------------------------
(* Claims about the server, checked under Spec *)

\* the message a read of the log carried, as parseMessage decodes it
ParsedOf(entry) == parseMessage(Flatten(entry.bytes))

\* the read carried a hello message valid against the declared type
IsValidHello(entry) ==
    /\ ParsedOf(entry).success
    /\ \A m \in ParsedOf(entry).value : IsMessage(m) /\ m["type"].s = "hello"

\* the bytes are an error message carrying the given error code
IsErrorWithCode(bytes, code) ==
    /\ parseMessage(bytes).success
    /\ \A m \in parseMessage(bytes).value :
          /\ Get(m, "type") = Str("error")
          /\ (Get(m, "name") = Str(code) \/ Get(m, "code") = Str(code))

\* C1: on every connection no message other than hello is dispatched before a
\* valid hello has been accepted, and when the first message is not a valid
\* hello the server sends an INVALID_HANDSHAKE error and closes the connection.
C1_HandshakeFirst ==
    \A c \in Conns :
        LET log == processed[c]
        IN /\ \A i \in 1..Len(log) :
                (log[i].outcome = "handled" /\ ~IsValidHello(log[i])) =>
                    \E j \in 1..(i - 1) :
                        IsValidHello(log[j]) /\ log[j].outcome = "handled"
           /\ (Len(log) >= 1 /\ ~IsValidHello(log[1])
                 /\ (Len(log) > 1 \/ pc[c] # "write")) =>
                 /\ released[c]
                 /\ sent[c] # <<>> => IsErrorWithCode(sent[c][1], "INVALID_HANDSHAKE")

\* C2: when the first message on a connection is a valid hello it is accepted
\* (the connection is ready for further traffic) and no error is written in
\* response.
C2_HelloAccepted ==
    \A c \in Conns :
        (Len(processed[c]) >= 1 /\ IsValidHello(processed[c][1])) =>
            /\ processed[c][1].outcome = "handled"
            /\ Len(processed[c]) = 1 => (pending[c] = <<>> /\ sent[c] = <<>>)

\* C8: every error message written to a peer is {type: "error", name: <error
\* code>, description: <string>}: parsed and given to convertMessage, it is
\* accepted as an error message.
C8_ErrorMatchesSchema ==
    \A c \in Conns : \A i \in 1..Len(sent[c]) :
        /\ parseMessage(sent[c][i]).success
        /\ \A m \in parseMessage(sent[c][i]).value :
              /\ convertMessage(m).success
              /\ IsMessage(m)
              /\ m["type"].s = "error"

RECURSIVE Frames(_)
\* the complete frames of a byte stream: the runs of bytes ended by a newline
Frames(bytes) ==
    IF \A i \in 1..Len(bytes) : bytes[i].lx # "nl" THEN <<>>
    ELSE LET nl == CHOOSE i \in 1..Len(bytes) :
                      bytes[i].lx = "nl" /\ \A j \in 1..(i - 1) : bytes[j].lx # "nl"
         IN <<SubSeq(bytes, 1, nl - 1)>> \o Frames(SubSeq(bytes, nl + 1, Len(bytes)))

\* C9: the messages processed on a connection are the frames of the bytes
\* read so far, split at the newlines, however the reads grouped the bytes;
\* bytes after the last newline are not processed yet.
C9_FramedByNewline ==
    \A c \in Conns :
        [i \in 1..Len(processed[c]) |-> NoWhitespace(Flatten(processed[c][i].bytes))]
            = Frames(Flatten(Stream(processed[c])))

\* C10: when the bytes read are not valid JSON the handler writes an
\* INVALID_FORMAT error and, whether or not the write succeeds, goes back to
\* reading: the loop does not end and the connection is not closed.
C10_ParseFailureRecovered ==
    [][\A c \in Conns :
        /\ (Len(processed'[c]) = Len(processed[c]) + 1
              /\ ~ParsedOf(processed'[c][Len(processed'[c])]).success) =>
              /\ pc'[c] = "write"
              /\ IsErrorWithCode(pending'[c], "INVALID_FORMAT")
              /\ ~released'[c]
        /\ (pc[c] = "write" /\ pc'[c] # "write") =>
              /\ pc'[c] = "read"
              /\ ~released'[c]
              /\ sent'[c] \in {sent[c], Append(sent[c], pending[c])}
      ]_vars

\* C10 witness: after a read that was not valid JSON and the INVALID_FORMAT
\* reply, a later well-formed message on the same connection was handled
C10_Witness ==
    \E c \in Conns :
        /\ Len(processed[c]) >= 2
        /\ processed[c][1].outcome = "parse_error"
        /\ processed[c][2].outcome = "handled"
        /\ sent[c] # <<>>
        /\ IsErrorWithCode(sent[c][1], "INVALID_FORMAT")

\* C11: parseMessage never raises and always returns a result, and the value of
\* a success is a structured object or an array, never a JSON scalar.
C11_SuccessIsStructured ==
    called =>
        /\ ~result.threw
        /\ result.success => \A v \in result.value : IsObject(v) \/ isArray(v)

\* C12: canonicalizeMessage is idempotent: canonicalizing its output gives
\* that output again.
C12_Idempotent == Len(output) = 2 => output[2] = output[1]

\* the error reply the handler writes for an entry of the log, <<>> if none
ReplyOf(entry) ==
    CASE entry.outcome = "parse_error" ->
            errorResponse("INVALID_FORMAT", "Message object is not valid JSON")
      [] entry.outcome = "invalid_type" ->
            errorResponse("INVALID_FORMAT", "Invalid message type")
      [] OTHER -> <<>>

\* C13: the messages of a connection are processed in arrival order: a read
\* takes the oldest bytes the peer sent and happens only when the processing
\* of the read before it, the write of its error reply included, is over; a
\* reply written is the reply to the read before it, so replies are written
\* in the order of the messages that caused them.
C13_ArrivalOrder ==
    [][\A c \in Conns :
        /\ processed'[c] # processed[c] =>
              /\ pc[c] = "read"
              /\ pending[c] = <<>>
              /\ \E entry \in {processed'[c][Len(processed'[c])]} :
                    /\ processed'[c] = Append(processed[c], entry)
                    /\ inq[c] = entry.bytes \o inq'[c]
                    /\ pending'[c] = ReplyOf(entry)
        /\ sent'[c] # sent[c] =>
              /\ processed[c] # <<>>
              /\ processed'[c] = processed[c]
              /\ sent'[c] = Append(sent[c], ReplyOf(processed[c][Len(processed[c])]))
              /\ ReplyOf(processed[c][Len(processed[c])]) # <<>>]_vars

\* two messages of one connection got different error replies, both written,
\* in the order of the messages
C13_Witness ==
    \E c \in Conns :
        /\ Len(processed[c]) = 2
        /\ processed[c][1].outcome = "parse_error"
        /\ processed[c][2].outcome = "invalid_type"
        /\ sent[c] = <<ReplyOf(processed[c][1]), ReplyOf(processed[c][2])>>

\* C14: once a read has returned EOF or failed the connection is closed for
\* good: the handler has no write under way and the server has released
\* (closed) the socket.
C14_ClosedReleased ==
    \A c \in Conns : pc[c] = "done" => pending[c] = <<>> /\ released[c]

\* C15: when the write of an error message fails the connection is closed:
\* the handler leaves the write for the end of its loop, not for another read.
C15_WriteFailureCloses ==
    [][\A c \in Conns :
        (pc[c] = "write" /\ pc'[c] # "write" /\ sent'[c] = sent[c]) =>
            pc'[c] = "done"]_vars

\* C18: every message the server has written is one JSON object followed by
\* one newline byte, the last byte written.
C18_WrittenEndsWithNewline ==
    \A c \in Conns : \A i \in 1..Len(sent[c]) :
        LET w == sent[c][i]
        IN /\ w # <<>>
           /\ w[Len(w)] = Newline
           /\ \A j \in 1..(Len(w) - 1) : w[j] # Newline
           /\ parseMessage(w).success
           /\ \A m \in parseMessage(w).value : IsObject(m)

\* the handler of c is waiting on a read with nothing to read, or on a write
Stalled(c) == (pc[c] = "read" /\ inq[c] = <<>>) \/ pc[c] = "write"

\* C16: connections do not block one another: while the handler of one
\* connection is stalled on a read or a write, a connection not yet accepted
\* can be accepted, and every other connection's handler can take its next
\* step: read the bytes that are waiting for it, or finish its write.
C16_NoBlocking ==
    \A c \in Conns : \A d \in Conns \ {c} :
        Stalled(c) =>
            /\ pc[d] = "listening" => ENABLED Accept(d)
            /\ (pc[d] = "read" /\ inq[d] # <<>>
                  /\ Len(RunBytes(Head(inq[d]))) <= BufferSize) => ENABLED Read(d, 1)
            /\ pc[d] = "write" => ENABLED WriteOk(d)

\* one handler is stalled on its write while another connection has been
\* accepted and has bytes to read
C16_Witness ==
    \E c \in Conns : \E d \in Conns \ {c} :
        /\ pc[c] = "write"
        /\ pc[d] = "read"
        /\ inq[d] # <<>>

\* C19: the bytes given to parseMessage after a read are the bytes that read
\* returned and nothing else, whatever earlier reads left in the buffer.
C19_ParsedIsWhatWasRead ==
    \A c \in Conns : \A i \in 1..Len(processed[c]) :
        processed[c][i].parsed = Flatten(processed[c][i].bytes)

\* a read shorter than the read before it: bytes of the first message are
\* still in the buffer after the second, which was parsed as sent
C19_Witness ==
    \E c \in Conns :
        /\ Len(processed[c]) = 2
        /\ Len(processed[c][2].parsed) < Len(processed[c][1].parsed)
        /\ buffer[c][Len(processed[c][2].parsed) + 1] # ZeroByte
        /\ processed[c][2].outcome = "handled"

\* the message types that carry no member but type
BareTypes == {"getpeers", "getmempool", "getchaintip"}

\* C17: an object of type getpeers, getmempool or getchaintip is accepted by
\* convertMessage if and only if type is its only key.
C17_ExactlyTypeKey ==
    (called /\ HasRegisteredType(message) /\ message["type"].s \in BareTypes) =>
        (result.success <=> DOMAIN message = {"type"})

\* a getmempool object with a second key was rejected
C17_Witness ==
    /\ called
    /\ HasRegisteredType(message)
    /\ message["type"].s = "getmempool"
    /\ DOMAIN message = {"type", "extra"}
    /\ ~result.success

\* C20: a failure in the handler of one connection stays in that handler:
\* whatever step a handler takes, it ends at a read, at a write or at its
\* normal return, never in a rejected promise; no other connection's handler
\* moves or loses anything by it; and a connection not yet accepted can still
\* be accepted afterwards.
C20_FailureContained ==
    [][\A c \in Conns :
        pc'[c] # pc[c] =>
            /\ pc'[c] \in {"read", "write", "done"}
            /\ \A d \in Conns \ {c} :
                  /\ pc'[d] = pc[d]
                  /\ inq'[d] = inq[d]
                  /\ processed'[d] = processed[d]
                  /\ pending'[d] = pending[d]
                  /\ sent'[d] = sent[d]
                  /\ pc'[d] = "listening" => (ENABLED Accept(d))']_vars

\* the handler of one connection has ended on a message that made it throw,
\* and another connection has since had a message handled
C20_Witness ==
    \E c \in Conns : \E d \in Conns \ {c} :
        /\ pc[c] = "done"
        /\ processed[c] # <<>>
        /\ processed[c][Len(processed[c])].outcome = "threw"
        /\ pc[d] = "read"
        /\ processed[d] # <<>>

====
